---- MODULE Spec2Model ----
(***************************************************************************)
(* JBridge Invoice Processor (src/invoice_processor.py).                   *)
(*                                                                         *)
(* The Streamlit script is re-run from top to bottom on every user action. *)
(* One action of this model is one such run: it reads the uploaded file,   *)
(* calls analyze_invoice_with_gemini when the button was clicked, stores   *)
(* the result in st.session_state.analysis_result and renders column 2.    *)
(*                                                                         *)
(* Text is a sequence of lexemes.  The lexemes that the code looks for     *)
(* (the two fence markers) and the ones json.loads tells apart are kept    *)
(* as they are; a word of ordinary text is one lexeme.                     *)
(*                                                                         *)
(* A Python value (what json.loads returns, what the function returns) is  *)
(* a record [kind, lex, keys, kids]:                                       *)
(*    None   kind "null"                                                   *)
(*    bool   kind "bool", lex = <<"true">> or <<"false">>                  *)
(*    number kind "num",  lex = <<Python's repr of the number>>            *)
(*    str    kind "str",  lex = the text of the string                     *)
(*    list   kind "list", kids = the items                                 *)
(*    dict   kind "dict", keys = the keys (each a text), kids = the values *)
(***************************************************************************)
EXTENDS Integers, Sequences, FiniteSets, TLC

VARIABLES
    GEMINI_API,     \* the credential read at startup (line 15)
    service,        \* what the model service answers to a request made now
    pdf,            \* the file held by st.file_uploader (line 101)
    text,           \* the text extracted in the last run (line 105)
    buttonShown,    \* the last run rendered the Analyze button (line 110)
    session_state,  \* the slot st.session_state.analysis_result
    analysed,       \* the last run called analyze_invoice_with_gemini
    returned,       \* what that call returned (None when there was no call)
    response,       \* the service's answer to the last run's request
    sent,           \* the requests the last run made on the network
    fault,          \* the exception that ended the last run, or NoFault
    view,           \* what column 2 showed in the last run
    csv_export,     \* the data of the "Download CSV Line" button
    json_export     \* the data of the "Download JSON" button

vars == <<GEMINI_API, service, pdf, text, buttonShown, session_state, analysed,
          returned, response, sent, fault, view, csv_export, json_export>>

(***************************************************************************)
(* Bounds of the model.                                                    *)
(***************************************************************************)
MaxPages == 2
MaxCommentary == 1
MaxTrunc == 1

(***************************************************************************)
(* Lexemes.                                                                *)
(***************************************************************************)
\* The fence markers.  A TLA+ string cannot hold the backquote character, so
\* each backquote of the marker is written as a quote mark here.
FENCE_JSON == "'''json"
FENCE == "'''"
QUOTE == "\""
NL == "\n"
SP == " "
ESC_QUOTE == "\\\""
ESC_NL == "\\n"

Whitespace == {NL, SP}

\* Each of these lexemes holds the generic fence marker as a substring.
HoldsFence == {FENCE, FENCE_JSON}

Range(s) == {s[i] : i \in 1..Len(s)}

(***************************************************************************)
(* Python values.                                                          *)
(***************************************************************************)
PyValue(kind, lex, keys, kids) == [kind |-> kind, lex |-> lex, keys |-> keys, kids |-> kids]

None == PyValue("null", <<>>, <<>>, <<>>)
Bool(lexeme) == PyValue("bool", <<lexeme>>, <<>>, <<>>)
Num(repr) == PyValue("num", <<repr>>, <<>>, <<>>)
Str(s) == PyValue("str", s, <<>>, <<>>)
List(items) == PyValue("list", <<>>, <<>>, items)
Dict(keys, vals) == PyValue("dict", <<>>, keys, vals)

Key(name) == <<name>>

HasKey(d, name) == d.kind = "dict" /\ \E i \in 1..Len(d.keys) : d.keys[i] = Key(name)

KeyIndex(d, k) == CHOOSE i \in 1..Len(d.keys) : d.keys[i] = k

\* dict.get(name, default)
Get(d, name, default) ==
    IF HasKey(d, name) THEN d.kids[KeyIndex(d, Key(name))] ELSE default

\* d[k] = v : a key already there keeps its place and takes the new value.
DictPut(d, k, v) ==
    IF \E i \in 1..Len(d.keys) : d.keys[i] = k
    THEN [d EXCEPT !.kids[KeyIndex(d, k)] = v]
    ELSE [d EXCEPT !.keys = Append(d.keys, k), !.kids = Append(d.kids, v)]

\* bool(v)
Truthy(v) ==
    CASE v.kind = "null" -> FALSE
      [] v.kind = "bool" -> v.lex = <<"true">>
      [] v.kind = "num" -> v.lex \notin {<<"0">>, <<"0.0">>}
      [] v.kind = "str" -> v.lex # <<>>
      [] OTHER -> v.kids # <<>>

\* str(v), as an f-string renders a value.
PyStr(v) ==
    CASE v.kind = "null" -> <<"None">>
      [] v.kind = "bool" -> IF v.lex = <<"true">> THEN <<"True">> ELSE <<"False">>
      [] v.kind = "num" -> v.lex
      [] v.kind = "str" -> v.lex
      [] v.kind = "list" -> <<"repr(list)">>
      [] OTHER -> <<"repr(dict)">>

(***************************************************************************)
(* json.loads: a recursive-descent parser over the lexemes.                *)
(***************************************************************************)
\* The number lexemes of the model and the Python number each one denotes,
\* by its repr: 45.00 is the float 45.0, 45 is the int 45.
NumberLexemes == {"45.00", "45.0", "45", "2", "1", "0"}

PyNumber(lexeme) == IF lexeme = "45.00" THEN "45.0" ELSE lexeme

Ok(v, n) == [ok |-> TRUE, val |-> v, next |-> n]
Fail == [ok |-> FALSE, val |-> None, next |-> 0]

\* The least member of a nonempty set of positions.
First(hits) == CHOOSE k \in hits : \A j \in hits : k <= j

\* The first position from i on that holds no whitespace, Len(s) + 1 if none.
SkipWs(s, i) ==
    LET hits == {k \in i..Len(s) : s[k] \notin Whitespace}
    IN  IF hits = {} THEN (IF i > Len(s) THEN i ELSE Len(s) + 1) ELSE First(hits)

\* The position of the first quote from i on, 0 if none.
FindQuote(s, i) ==
    LET hits == {k \in i..Len(s) : s[k] = QUOTE}
    IN  IF hits = {} THEN 0 ELSE First(hits)

Unescape(lexeme) ==
    IF lexeme = ESC_QUOTE THEN QUOTE ELSE IF lexeme = ESC_NL THEN NL ELSE lexeme

Escape(lexeme) ==
    IF lexeme = QUOTE THEN ESC_QUOTE ELSE IF lexeme = NL THEN ESC_NL ELSE lexeme

\* A string literal starting at s[i] = QUOTE.  A raw newline inside a string
\* literal is an invalid control character.
ScanString(s, i) ==
    LET j == FindQuote(s, i + 1)
    IN  IF j = 0 THEN Fail
        ELSE IF \E k \in (i + 1)..(j - 1) : s[k] = NL THEN Fail
        ELSE Ok(Str([k \in 1..(j - i - 1) |-> Unescape(s[i + k])]), j + 1)

RECURSIVE ParseValue(_, _), ParseMembers(_, _, _), ParseElements(_, _, _)

ParseValue(s, i0) ==
    LET i == SkipWs(s, i0)
    IN  IF i > Len(s) THEN Fail
        ELSE IF s[i] = "null" THEN Ok(None, i + 1)
        ELSE IF s[i] \in {"true", "false"} THEN Ok(Bool(s[i]), i + 1)
        ELSE IF s[i] \in NumberLexemes THEN Ok(Num(PyNumber(s[i])), i + 1)
        ELSE IF s[i] = QUOTE THEN ScanString(s, i)
        ELSE IF s[i] = "{" THEN
            LET j == SkipWs(s, i + 1)
            IN  IF j <= Len(s) /\ s[j] = "}" THEN Ok(Dict(<<>>, <<>>), j + 1)
                ELSE ParseMembers(s, j, Dict(<<>>, <<>>))
        ELSE IF s[i] = "[" THEN
            LET j == SkipWs(s, i + 1)
            IN  IF j <= Len(s) /\ s[j] = "]" THEN Ok(List(<<>>), j + 1)
                ELSE ParseElements(s, j, <<>>)
        ELSE Fail

\* "key" : value , ... }
ParseMembers(s, i0, d) ==
    LET i == SkipWs(s, i0)
    IN  IF i > Len(s) \/ s[i] # QUOTE THEN Fail
        ELSE LET k == ScanString(s, i)
             IN  IF ~k.ok THEN Fail
                 ELSE LET c == SkipWs(s, k.next)
                      IN  IF c > Len(s) \/ s[c] # ":" THEN Fail
                          ELSE LET v == ParseValue(s, c + 1)
                               IN  IF ~v.ok THEN Fail
                                   ELSE LET e == SkipWs(s, v.next)
                                            d2 == DictPut(d, k.val.lex, v.val)
                                        IN  IF e > Len(s) THEN Fail
                                            ELSE IF s[e] = "}" THEN Ok(d2, e + 1)
                                            ELSE IF s[e] = "," THEN ParseMembers(s, e + 1, d2)
                                            ELSE Fail

\* value , ... ]
ParseElements(s, i0, items) ==
    LET v == ParseValue(s, i0)
    IN  IF ~v.ok THEN Fail
        ELSE LET e == SkipWs(s, v.next)
                 items2 == Append(items, v.val)
             IN  IF e > Len(s) THEN Fail
                 ELSE IF s[e] = "]" THEN Ok(List(items2), e + 1)
                 ELSE IF s[e] = "," THEN ParseElements(s, e + 1, items2)
                 ELSE Fail

\* json.loads(s): [ok, val]; ok = FALSE is json.JSONDecodeError.  Text after the
\* value other than whitespace is "Extra data".
JsonLoads(s) ==
    LET r == ParseValue(s, 1)
    IN  IF r.ok /\ SkipWs(s, r.next) > Len(s) THEN [ok |-> TRUE, val |-> r.val]
        ELSE [ok |-> FALSE, val |-> None]

(***************************************************************************)
(* json.dumps(v, indent=2).                                                *)
(***************************************************************************)
Spaces(n) == [k \in 1..n |-> SP]

Indent(depth) == <<NL>> \o Spaces(depth)

DumpStr(s) == <<QUOTE>> \o [k \in 1..Len(s) |-> Escape(s[k])] \o <<QUOTE>>

RECURSIVE Dump(_, _), DumpItems(_, _, _), DumpMembers(_, _, _)

Dump(v, depth) ==
    CASE v.kind = "null" -> <<"null">>
      [] v.kind = "bool" -> v.lex
      [] v.kind = "num" -> v.lex
      [] v.kind = "str" -> DumpStr(v.lex)
      [] v.kind = "list" ->
            IF v.kids = <<>> THEN <<"[", "]">>
            ELSE <<"[">> \o DumpItems(v, 1, depth + 1) \o Indent(depth) \o <<"]">>
      [] OTHER ->
            IF v.kids = <<>> THEN <<"{", "}">>
            ELSE <<"{">> \o DumpMembers(v, 1, depth + 1) \o Indent(depth) \o <<"}">>

DumpItems(v, i, depth) ==
    IF i > Len(v.kids) THEN <<>>
    ELSE Indent(depth) \o Dump(v.kids[i], depth)
         \o (IF i < Len(v.kids) THEN <<",">> ELSE <<>>)
         \o DumpItems(v, i + 1, depth)

DumpMembers(v, i, depth) ==
    IF i > Len(v.kids) THEN <<>>
    ELSE Indent(depth) \o DumpStr(v.keys[i]) \o <<":", SP>> \o Dump(v.kids[i], depth)
         \o (IF i < Len(v.kids) THEN <<",">> ELSE <<>>)
         \o DumpMembers(v, i + 1, depth)

JsonDumps(v) == Dump(v, 0)

(***************************************************************************)
(* Startup: lines 12-17.                                                   *)
(***************************************************************************)
\* os.getenv gives None for a variable that is not set.
EnvUnset == "<None>"
EnvValues == {EnvUnset, "", "key"}

\* The truth value of an Optional[str]: None and "" are false.
StrTruthyNotNone(v) == v # EnvUnset
StrTruthy(v) == v \notin {EnvUnset, ""}

\* a or b
PyOr(a, b) == IF StrTruthy(a) THEN a ELSE b

\* GEMINI_API = os.getenv("GEMINI_API_KEY") or os.getenv("GEMINI_API")
Startup == {PyOr(k1, k2) : k1 \in EnvValues, k2 \in EnvValues}

(***************************************************************************)
(* extract_text_from_pdf: lines 61-69.                                     *)
(***************************************************************************)
\* A file is [present, wellformed, pages]; a page is its extractable text,
\* <<>> for a page that has none.
NoFile == [present |-> FALSE, wellformed |-> TRUE, pages |-> <<>>]

RECURSIVE PagesText(_, _)
PagesText(pages, i) ==
    IF i > Len(pages) THEN <<>>
    ELSE (IF pages[i] # <<>> THEN pages[i] \o <<NL>> ELSE <<>>) \o PagesText(pages, i + 1)

\* PdfReader(pdf_file) raises on a file that is no PDF: [raised, text].
extract_text_from_pdf(pdf_file) ==
    IF ~pdf_file.wellformed THEN [raised |-> TRUE, text |-> <<>>]
    ELSE [raised |-> FALSE, text |-> PagesText(pdf_file.pages, 1)]

(***************************************************************************)
(* analyze_invoice_with_gemini: lines 71-94.                               *)
(***************************************************************************)
INVOICE_EXTRACTION_PROMPT == <<"INVOICE_EXTRACTION_PROMPT">>

\* What the service does with a request: it replies with a text, or the call
\* raises (network failure, service failure, blocked response).
Reply(t) == [kind |-> "reply", text |-> t, msg |-> ""]
Raise(m) == [kind |-> "raise", text |-> <<>>, msg |-> m]
NoOutcome == [kind |-> "none", text |-> <<>>, msg |-> ""]

ErrorDict(message) == Dict(<<Key("error")>>, <<Str(<<message>>)>>)

NotConfigured == ErrorDict("GEMINI_API_KEY not configured. Set in .env file.")

\* The first position from i on of a lexeme of seps in s, Len(s) + 1 if none.
Find(s, seps, i) ==
    LET hits == {k \in i..Len(s) : s[k] \in seps}
    IN  IF hits = {} THEN Len(s) + 1 ELSE First(hits)

\* s.split(sep)[0] and s.split(sep)[1], seps being the lexemes that hold sep.
SplitPiece0(s, seps) == SubSeq(s, 1, Find(s, seps, 1) - 1)
SplitPiece1(s, seps) ==
    LET a == Find(s, seps, 1)
    IN  SubSeq(s, a + 1, Find(s, seps, a + 1) - 1)

\* A stripper that rejects a fence that is never closed (it yields no text).
strip_code_fence_closed_only(response_text) ==
    LET open == Find(response_text,
                     IF FENCE_JSON \in Range(response_text) THEN {FENCE_JSON} ELSE HoldsFence, 1)
        close == Find(response_text, HoldsFence, open + 1)
    IN  IF open > Len(response_text) THEN response_text
        ELSE IF close > Len(response_text) THEN <<>>
        ELSE SubSeq(response_text, open + 1, close - 1)

\* Lines 85-88.
strip_code_fence(response_text) ==
    IF FENCE_JSON \in Range(response_text)
    THEN SplitPiece0(SplitPiece1(response_text, {FENCE_JSON}), HoldsFence)
    ELSE IF Range(response_text) \cap HoldsFence # {}
    THEN SplitPiece0(SplitPiece1(response_text, HoldsFence), HoldsFence)
    ELSE response_text

\* str.strip()
Strip(s) ==
    LET hits == {k \in 1..Len(s) : s[k] \notin Whitespace}
    IN  IF hits = {} THEN <<>>
        ELSE SubSeq(s, First(hits), CHOOSE k \in hits : \A j \in hits : j <= k)

\* Line 92, with the stripped text in place of response.text.
parse_failure_stripped(original, stripped) ==
    Dict(<<Key("error"), Key("raw_response")>>,
         <<Str(<<"Failed to parse response">>), Str(stripped)>>)

\* Line 92: original is response.text, stripped the reassigned response_text.
parse_failure(original, stripped) ==
    Dict(<<Key("error"), Key("raw_response")>>,
         <<Str(<<"Failed to parse response">>), Str(original)>>)

\* The InvoiceRecord fields, in the order of the prompt (lines 31-52).
Fields == <<"vendor_name", "vendor_address", "invoice_number", "invoice_date",
            "due_date", "subtotal", "tax", "total", "currency", "payment_method",
            "line_items", "category_suggestion", "notes">>

RECURSIVE FillMissing(_, _)
FillMissing(d, i) ==
    IF i > Len(Fields) THEN d
    ELSE FillMissing(IF HasKey(d, Fields[i]) THEN d ELSE DictPut(d, Key(Fields[i]), None), i + 1)

\* A parse that fills the fields the object lacks with None.
parse_response_filled(stripped) ==
    LET r == JsonLoads(Strip(stripped))
    IN  IF r.ok /\ r.val.kind = "dict" THEN [ok |-> TRUE, val |-> FillMissing(r.val, 1)] ELSE r

\* Line 90: json.loads(response_text.strip())
parse_response(stripped) == JsonLoads(Strip(stripped))

\* A call that is made again after a failure.
generate_content_retry(prompt, svc) ==
    IF svc.kind = "raise" THEN <<prompt, prompt>> ELSE <<prompt>>

\* Line 80: the requests that model.generate_content(prompt) makes.
generate_content(prompt, svc) == <<prompt>>

\* Lines 90-92: the parsed value, or the error dict of a JSONDecodeError.
parsed_or_failure(original, response_text, parsed) ==
    IF parsed.ok THEN parsed.val ELSE parse_failure(original, response_text)

\* Lines 83-92 on the reply text.
normalize(original, response_text) ==
    parsed_or_failure(original, response_text, parse_response(response_text))

Called(ret, requests, svc) == [ret |-> ret, sent |-> requests, response |-> svc]

\* Lines 79-94, the requests of line 80 made.
after_request(svc, requests) ==
    IF svc.kind = "raise" THEN Called(ErrorDict(svc.msg), requests, svc)
    ELSE Called(normalize(svc.text, strip_code_fence(svc.text)), requests, svc)

\* [ret, sent, response]: the value returned, the requests made, the answer.
analyze_invoice_with_gemini(txt, key, svc) ==
    IF ~StrTruthy(key) THEN Called(NotConfigured, <<>>, NoOutcome)
    ELSE after_request(svc, generate_content(INVOICE_EXTRACTION_PROMPT \o txt, svc))

(***************************************************************************)
(* Column 2: lines 116-169.                                                *)
(***************************************************************************)
NoFault == "None"

EmptySlot == [set |-> FALSE, val |-> None]
Slot(v) == [set |-> TRUE, val |-> v]

Shown(what, exc, csv, json) == [view |-> what, fault |-> exc, csv |-> csv, json |-> json]
Raised(exc) == Shown("fault", exc, <<>>, <<>>)

\* f"{v:.2f}" raises unless v is a number.
FormatFault(v) ==
    IF v.kind \in {"num", "bool"} THEN NoFault
    ELSE IF v.kind = "str" THEN "ValueError" ELSE "TypeError"

\* Lines 142-143 for one item of the list.
ItemFault(item) ==
    IF ~Truthy(item) THEN NoFault
    ELSE IF item.kind # "dict" THEN "AttributeError"
    ELSE IF Truthy(Get(item, "amount", None)) THEN FormatFault(Get(item, "amount", None))
    ELSE NoFault

RECURSIVE ItemsFault(_, _)
ItemsFault(items, i) ==
    IF i > Len(items) THEN NoFault
    ELSE IF ItemFault(items[i]) # NoFault THEN ItemFault(items[i])
    ELSE ItemsFault(items, i + 1)

\* Lines 139-143.
LineItemsFault(li) ==
    IF ~Truthy(li) THEN NoFault
    ELSE IF li.kind \in {"num", "bool"} THEN "TypeError"
    ELSE IF li.kind = "str" THEN "AttributeError"
    ELSE IF li.kind = "dict"
         THEN (IF \E i \in 1..Len(li.keys) : li.keys[i] # <<>> THEN "AttributeError" ELSE NoFault)
    ELSE ItemsFault(li.kids, 1)

\* Lines 128-143: the first exception the display of a dict raises.
DisplayFault(result) ==
    LET total == Get(result, "total", None)
    IN  IF Truthy(total) /\ FormatFault(total) # NoFault THEN FormatFault(total)
        ELSE LineItemsFault(Get(result, "line_items", None))

CsvHeader == <<"date", ",", "vendor", ",", "total", ",", "category", NL>>

\* Lines 161-164.
CsvExport(result) ==
    CsvHeader \o PyStr(Get(result, "invoice_date", Str(<<>>)))
        \o <<",">> \o PyStr(Get(result, "vendor_name", Str(<<>>)))
        \o <<",">> \o PyStr(Get(result, "total", Str(<<>>)))
        \o <<",">> \o PyStr(Get(result, "category_suggestion", Str(<<>>)))

\* Lines 119-169.  "error" in result is a key test on a dict, a membership
\* test on a list, a substring test on a str and a TypeError on anything else;
\* result['error'] and result.get then raise on what is no dict.
Render(slot) ==
    IF ~slot.set THEN Shown("info", NoFault, <<>>, <<>>)
    ELSE LET result == slot.val
         IN  IF result.kind \in {"null", "num", "bool"} THEN Raised("TypeError")
             ELSE IF result.kind = "str"
                  THEN Raised(IF "error" \in Range(result.lex) THEN "TypeError" ELSE "AttributeError")
             ELSE IF result.kind = "list"
                  THEN Raised(IF \E i \in 1..Len(result.kids) : result.kids[i] = Str(<<"error">>)
                              THEN "TypeError" ELSE "AttributeError")
             ELSE IF HasKey(result, "error") THEN Shown("error", NoFault, <<>>, <<>>)
             ELSE IF DisplayFault(result) # NoFault THEN Raised(DisplayFault(result))
             ELSE Shown("record", NoFault, CsvExport(result), JsonDumps(result))

(***************************************************************************)
(* One run of the script: lines 99-169.                                    *)
(***************************************************************************)
\* A run that starts from an empty slot unless it analyses.
store_fresh(slot, clicked, result) == IF clicked THEN Slot(result) ELSE EmptySlot

\* Lines 110-114: the slot after column 1.
store(slot, clicked, result) == IF clicked THEN Slot(result) ELSE slot

NoCall == Called(None, <<>>, NoOutcome)

\* The state a run leaves: a is the call of analyze_invoice_with_gemini the run
\* made (NoCall if none), shown what column 2 did.
RunState(file, txt, button, slot, click, a, shown) ==
    [pdf |-> file,
     text |-> txt,
     buttonShown |-> button,
     session_state |-> slot,
     analysed |-> click,
     returned |-> a.ret,
     response |-> a.response,
     sent |-> a.sent,
     fault |-> shown.fault,
     view |-> shown.view,
     csv_export |-> shown.csv,
     json_export |-> shown.json]

\* Lines 116-169, after column 1 left the slot as it is here.
Column2(file, txt, slot, click, a) ==
    RunState(file, txt, file.present, slot, click, a, Render(slot))

\* Lines 110-114.
Column1(slot, file, txt, click, a) ==
    Column2(file, txt, store(slot, click, a.ret), click, a)

\* Lines 103-105: the text of the file in the uploader, if there is one.
ReadFile(file) ==
    IF file.present THEN extract_text_from_pdf(file) ELSE [raised |-> FALSE, text |-> <<>>]

\* Lines 103-169 with the file read.  An exception of line 105 ends the run:
\* nothing below it is executed.
AfterRead(slot, key, svc, file, clicked, read) ==
    IF read.raised
    THEN RunState(file, read.text, FALSE, slot, FALSE, NoCall, Raised("PdfReadError"))
    ELSE IF file.present /\ clicked
    THEN Column1(slot, file, read.text, TRUE, analyze_invoice_with_gemini(read.text, key, svc))
    ELSE Column1(slot, file, read.text, FALSE, NoCall)

\* The state after the script ran with file in the uploader and the button
\* clicked or not, from a session whose slot was slot.
ScriptRun(slot, key, svc, file, clicked) ==
    AfterRead(slot, key, svc, file, clicked, ReadFile(file))

Current(r) ==
    /\ pdf = r.pdf
    /\ text = r.text
    /\ buttonShown = r.buttonShown
    /\ session_state = r.session_state
    /\ analysed = r.analysed
    /\ returned = r.returned
    /\ response = r.response
    /\ sent = r.sent
    /\ fault = r.fault
    /\ view = r.view
    /\ csv_export = r.csv_export
    /\ json_export = r.json_export

Becomes(r) ==
    /\ pdf' = r.pdf
    /\ text' = r.text
    /\ buttonShown' = r.buttonShown
    /\ session_state' = r.session_state
    /\ analysed' = r.analysed
    /\ returned' = r.returned
    /\ response' = r.response
    /\ sent' = r.sent
    /\ fault' = r.fault
    /\ view' = r.view
    /\ csv_export' = r.csv_export
    /\ json_export' = r.json_export
    /\ UNCHANGED <<GEMINI_API, service>>

Rerun(file, clicked) == Becomes(ScriptRun(session_state, GEMINI_API, service, file, clicked))

(***************************************************************************)
(* The inputs of the model: files, values and replies.                     *)
(***************************************************************************)
UpTo(S, n) == UNION {[1..k -> S] : k \in 0..n}

PageTexts == {<<>>, <<"Acme", SP, "Corp", NL, "Total:", SP, "45.00">>}

NotAPdf == [present |-> TRUE, wellformed |-> FALSE, pages |-> <<>>]
PdfOf(pages) == [present |-> TRUE, wellformed |-> TRUE, pages |-> pages]

Docs == {NotAPdf} \cup {PdfOf(p) : p \in UpTo(PageTexts, MaxPages)}

InvoiceDoc == PdfOf(<<<<"Acme", SP, "Corp", NL, "Total:", SP, "45.00">>>>)

\* A dict from <<name, value>> pairs.
Obj(pairs) ==
    Dict([i \in 1..Len(pairs) |-> Key(pairs[i][1])], [i \in 1..Len(pairs) |-> pairs[i][2]])

AcmeObj ==
    Obj(<< <<"vendor_name", Str(<<"Acme", SP, "Corp">>)>>,
           <<"invoice_number", Str(<<"100">>)>>,
           <<"invoice_date", Str(<<"2024-03-14">>)>>,
           <<"total", Num("45.0")>>,
           <<"currency", Str(<<"USD">>)>>,
           <<"line_items", List(<<>>)>>,
           <<"category_suggestion", Str(<<"Office", SP, "Supplies">>)>> >>)

NullsObj ==
    Obj(<< <<"invoice_date", None>>,
           <<"vendor_name", Str(<<"Acme">>)>>,
           <<"total", Num("45.0")>>,
           <<"category_suggestion", None>> >>)

PaperItem == Obj(<< <<"description", Str(<<"Paper">>)>> >>)
InkItem == Obj(<< <<"description", Str(<<"Ink">>)>>, <<"amount", Num("2")>> >>)

ItemsObj ==
    Obj(<< <<"vendor_name", Str(<<"Acme">>)>>,
           <<"line_items", List(<<PaperItem, InkItem, PaperItem>>)>> >>)

EmptyObj == Dict(<<>>, <<>>)

\* A note that quotes a fence marker.
NotesFenceObj ==
    Obj(<< <<"vendor_name", Str(<<"Acme">>)>>,
           <<"notes", Str(<<"see", SP, FENCE, "terms", FENCE>>)>> >>)

ErrorKeyObj ==
    Obj(<< <<"error", Str(<<"overdue">>)>>, <<"vendor_name", Str(<<"Acme">>)>> >>)

StringTotalObj == Obj(<< <<"vendor_name", Str(<<"Acme">>)>>, <<"total", Str(<<"45.00">>)>> >>)

\* An InvoiceRecord: every field present, null where the invoice has none.
InvoiceRecordOf(d) == FillMissing(d, 1)

ValidRecords == {InvoiceRecordOf(d) : d \in {AcmeObj, ItemsObj, NotesFenceObj}}

SampleObjects ==
    {AcmeObj, NullsObj, ItemsObj, EmptyObj, NotesFenceObj, ErrorKeyObj, StringTotalObj}
        \cup ValidRecords

NonObjects == {List(<<Num("1"), Num("2")>>), Str(<<"error">>), Num("45"), None}

Truncations(s) == {SubSeq(s, 1, Len(s) - n) : n \in 1..(IF MaxTrunc < Len(s) THEN MaxTrunc ELSE Len(s))}

Bodies ==
    LET whole == {JsonDumps(v) : v \in SampleObjects \cup NonObjects}
    IN  whole \cup UNION {Truncations(s) : s \in whole}

FenceFree(s) == Range(s) \cap HoldsFence = {}

PreCommentary == UpTo({"Here", FENCE}, MaxCommentary)
PostCommentary == UpTo({"Done", FENCE, FENCE_JSON}, MaxCommentary)

Tagged(pre, body, post) == pre \o <<FENCE_JSON, NL>> \o body \o <<NL, FENCE>> \o post
Generic(pre, body, post) == pre \o <<FENCE, NL>> \o body \o <<NL, FENCE>> \o post
TaggedOpen(pre, body, post) == pre \o <<FENCE_JSON, NL>> \o body \o post
GenericOpen(pre, body, post) == pre \o <<FENCE, NL>> \o body \o post

NormReplies ==
    UNION {
        {pre \o body \o post, Tagged(pre, body, post), Generic(pre, body, post)}
            \cup (IF FenceFree(post) /\ FenceFree(body)
                  THEN {TaggedOpen(pre, body, post)} ELSE {})
            \cup (IF FenceFree(pre) /\ FenceFree(post) /\ FenceFree(body)
                  THEN {GenericOpen(pre, body, post)} ELSE {})
        : pre \in PreCommentary, body \in Bodies, post \in PostCommentary }

NormOutcomes == {Reply(t) : t \in NormReplies}

\* The reply of the scenario: the total is written 45.00.
ScenarioReply ==
    LET d == JsonDumps(AcmeObj)
    IN  Tagged(<<"Here", SP, "is", SP, "the", SP, "data:", NL>>,
               [k \in 1..Len(d) |-> IF d[k] = "45.0" THEN "45.00" ELSE d[k]], <<NL>>)

Outcomes ==
    { Raise("503 Service Unavailable"),
      Reply(ScenarioReply),
      Reply(JsonDumps(NullsObj)),
      Reply(Generic(<<>>, JsonDumps(ItemsObj), <<>>)),
      Reply(Tagged(<<>>, SubSeq(JsonDumps(AcmeObj), 1, Len(JsonDumps(AcmeObj)) - 1), <<>>)),
      Reply(TaggedOpen(<<>>, JsonDumps(AcmeObj), <<>>)),
      Reply(Tagged(<<"Here">>, JsonDumps(InvoiceRecordOf(NotesFenceObj)), <<>>)),
      Reply(JsonDumps(List(<<Num("1"), Num("2")>>))),
      Reply(JsonDumps(ErrorKeyObj)),
      Reply(JsonDumps(StringTotalObj)) }

(***************************************************************************)
(* The session.                                                            *)
(***************************************************************************)
\* The first run of the script: no file, nothing analysed.
Init ==
    /\ GEMINI_API \in Startup
    /\ service \in Outcomes
    /\ Current(ScriptRun(EmptySlot, GEMINI_API, service, NoFile, FALSE))

\* The user puts a file in the uploader.
Upload == \E doc \in Docs : Rerun(doc, FALSE)

\* The user takes the file out of the uploader.
RemoveFile == pdf.present /\ Rerun(NoFile, FALSE)

\* The user clicks "Analyze Invoice".
ClickAnalyze == buttonShown /\ Rerun(pdf, TRUE)

\* Any other widget (an expander, a download button) re-runs the script.
Rerender == Rerun(pdf, FALSE)

\* The service's behaviour changes between requests.
ServiceChanges ==
    /\ \E o \in Outcomes : service' = o
    /\ UNCHANGED <<GEMINI_API, pdf, text, buttonShown, session_state, analysed,
                   returned, response, sent, fault, view, csv_export, json_export>>

Next == Upload \/ RemoveFile \/ ClickAnalyze \/ Rerender \/ ServiceChanges

Spec == Init /\ [][Next]_vars

\* The normalizer on every reply of NormReplies: a session with the invoice
\* uploaded, and the service about to give one of these replies.
InitNorm ==
    /\ GEMINI_API \in Startup
    /\ service \in NormOutcomes
    /\ Current(ScriptRun(EmptySlot, GEMINI_API, service, InvoiceDoc, FALSE))

NextNorm == ClickAnalyze \/ Rerender

SpecNorm == InitNorm /\ [][NextNorm]_vars

(***************************************************************************)
(* Properties.                                                             *)
(***************************************************************************)
\* The two outcomes of a pipeline run, as the shell tells them apart
\* (line 122): an ExtractionError is a dict with the key "error", an
\* InvoiceRecord a dict without it.
IsExtractionError(v) == HasKey(v, "error")
IsInvoiceRecord(v) == v.kind = "dict" /\ ~HasKey(v, "error")

\* The ParseError of line 92 for the reply text original.
IsParseErrorOf(v, original) ==
    /\ v.kind = "dict"
    /\ v.keys = <<Key("error"), Key("raw_response")>>
    /\ v.kids = <<Str(<<"Failed to parse response">>), Str(original)>>

IsParseError(v) ==
    /\ HasKey(v, "raw_response")
    /\ Get(v, "error", None) = Str(<<"Failed to parse response">>)

\* The normalizer ran in the last run: the service replied with a text.
Normalized == analysed /\ response.kind = "reply"

\* C1: every pipeline run ends with exactly one outcome, an InvoiceRecord or an
\* ExtractionError: the value handed to the shell is never both and never
\* neither, whatever the model replied.
C1_ExactlyOneOutcome ==
    analysed =>
        /\ session_state = Slot(returned)
        /\ IsInvoiceRecord(returned) \/ IsExtractionError(returned)
        /\ ~(IsInvoiceRecord(returned) /\ IsExtractionError(returned))

\* C2: with no credential configured the call returns the configuration error
\* and makes no request on the network, for every input text.
C2_AbsentCredential ==
    (analysed /\ GEMINI_API \in {EnvUnset, ""}) =>
        /\ returned = ErrorDict("GEMINI_API_KEY not configured. Set in .env file.")
        /\ IsExtractionError(returned)
        /\ sent = <<>>

C2_Witness ==
    /\ analysed
    /\ GEMINI_API = ""
    /\ text # <<>>
    /\ sent = <<>>
    /\ IsExtractionError(returned)

\* C3: a reply whose content after fence stripping and trimming is not valid
\* JSON yields the parse error whose raw_response is the original, unstripped
\* reply, and never a partial record.
C3_MalformedJson ==
    (Normalized /\ ~JsonLoads(Strip(strip_code_fence(response.text))).ok) =>
        /\ IsParseErrorOf(returned, response.text)
        /\ session_state = Slot(returned)

C3_Witness ==
    /\ Normalized
    /\ FENCE_JSON \in Range(response.text)
    /\ strip_code_fence(response.text) # response.text
    /\ IsParseErrorOf(returned, response.text)
    /\ view = "error"

\* The replies of the round trip: a valid InvoiceRecord serialized, wrapped in a
\* JSON-tagged fence, with commentary before the opening and after the closing
\* fence.
RoundTripCases ==
    {[text |-> Tagged(pre, JsonDumps(rec), post), value |-> rec] :
        rec \in ValidRecords, pre \in PreCommentary, post \in PostCommentary}

\* C4: for any valid InvoiceRecord serialized, fenced and surrounded by
\* commentary, the normalizer returns a record equal to the original.
C4_RoundTrip ==
    \A c \in RoundTripCases :
        (Normalized /\ response.text = c.text) => returned = c.value

\* The round trip on the records that hold no fence marker in a text field.
RoundTripFenceFree ==
    \A c \in RoundTripCases :
        (Normalized /\ response.text = c.text /\ FenceFree(JsonDumps(c.value)))
            => returned = c.value

\* C5: no step of the pipeline, from reading the document to returning the
\* result, lets an unhandled fault escape: a malformed document ends the run
\* with an ExtractionError in the shell.
C5_NoUnhandledFault ==
    /\ fault # "PdfReadError"
    /\ (pdf.present /\ ~pdf.wellformed) => view = "error"

\* C6: a pipeline invocation makes at most one request; after a failed call no
\* second request is made and the failure is returned as an error.
C6_NoRetry ==
    /\ Len(sent) <= 1
    /\ (analysed /\ response.kind = "raise") =>
            /\ Len(sent) = 1
            /\ returned = ErrorDict(response.msg)
            /\ session_state = Slot(returned)

C6_Witness ==
    /\ analysed
    /\ response.kind = "raise"
    /\ Len(sent) = 1
    /\ view = "error"

\* The four LineItem fields.
LineItemFields == {"description", "quantity", "unit_price", "amount"}

ObjectCases ==
    {[text |-> JsonDumps(obj), value |-> obj] : obj \in {o \in SampleObjects : FenceFree(JsonDumps(o))}}
        \cup {[text |-> Tagged(<<>>, JsonDumps(obj), <<>>), value |-> obj] :
                obj \in {o \in SampleObjects : FenceFree(JsonDumps(o))}}

FlatField(result, name) ==
    IF Get(result, name, None) = None THEN <<>> ELSE PyStr(Get(result, name, None))

\* C8: the flat export is the header date,vendor,total,category and one row of
\* invoice_date, vendor_name, total, category_suggestion, each the empty
\* string when null, be its key absent or present with null.
C8_FlatExport ==
    view = "record" =>
        csv_export = CsvHeader \o FlatField(session_state.val, "invoice_date")
                        \o <<",">> \o FlatField(session_state.val, "vendor_name")
                        \o <<",">> \o FlatField(session_state.val, "total")
                        \o <<",">> \o FlatField(session_state.val, "category_suggestion")

\* The opening fence of a reply: the first JSON-tagged marker, or the first
\* generic marker when there is no JSON-tagged one.
Opening(s) ==
    IF FENCE_JSON \in Range(s) THEN Find(s, {FENCE_JSON}, 1) ELSE Find(s, HoldsFence, 1)

\* An opening fence and no fence marker after it.
UnclosedFence(s) ==
    /\ Opening(s) <= Len(s)
    /\ \A k \in (Opening(s) + 1)..Len(s) : s[k] \notin HoldsFence

\* C9 as stated: a reply with an opening fence and no closing fence is a
\* ParseError, never a record.
C9_UnclosedIsParseError ==
    (Normalized /\ UnclosedFence(response.text)) => IsParseError(returned)

\* C9 amended: a reply with an opening fence and no closing fence is normalized
\* from all the text after the opening fence: it is the ParseError with the
\* original reply when that text, trimmed, is not valid JSON, and the parsed
\* value otherwise.
C9_UnclosedUsesRest ==
    (Normalized /\ UnclosedFence(response.text)) =>
        LET rest == SubSeq(response.text, Opening(response.text) + 1, Len(response.text))
            parsed == JsonLoads(Strip(rest))
        IN  IF parsed.ok THEN returned = parsed.val
            ELSE IsParseErrorOf(returned, response.text)

C9_Witness ==
    /\ Normalized
    /\ UnclosedFence(response.text)
    /\ returned = AcmeObj
    /\ view = "record"

\* C10: the slot is written once per completed pipeline run, wholesale, with
\* that run's value, and by nothing else: a run that does not analyse (an
\* upload, a re-render) leaves it as it was.
C10_SlotWrittenOncePerRun ==
    [][ /\ analysed' => session_state' = Slot(returned')
        /\ ~analysed' => session_state' = session_state ]_vars

\* A result outlives an upload that analysed nothing.
C10_Witness ==
    /\ session_state.set
    /\ ~analysed
    /\ fault = "PdfReadError"
    /\ IsInvoiceRecord(session_state.val)

====
